---- MODULE Spec2Model ----
(***************************************************************************)
(* The expiring slot store of package cache (cache.go) with its janitor    *)
(* goroutine, and the bucket layer on top of it (bucket.go).               *)
(*                                                                         *)
(* Conventions                                                             *)
(*  - A time.Time is its count of seconds since year 1 (the field the      *)
(*    comparisons read once UTC() has stripped the monotonic reading), a   *)
(*    signed integer of the width of MaxInt64 (scaled down to a few bits   *)
(*    so that the state space stays finite).  The zero Time is 0.          *)
(*  - A fingerprint (uint64) is four 16-bit limbs, least significant       *)
(*    first; a key string is the sequence of its bytes.                    *)
(*  - Go indexes slots from 0, the model from 1: keys[k] is the Go index   *)
(*    plus one.                                                            *)
(*  - Every method that runs under t.Lock() is one action.                 *)
(***************************************************************************)
EXTENDS Integers, Sequences, FiniteSets, TLC

VARIABLES
    slots,      \* Cache.slots: sequence of [Item, ExpiresAt, empty]
    keys,       \* Cache.keys: fingerprint -> slot index
    nextExp,    \* Cache.nextExp
    config,     \* Cache.config: [OnExpires: is a callback set, Refresh]
    now,        \* the wall clock, in seconds since the Unix epoch
    jan,        \* the janitor goroutine: [pc, wakeAt, batch]
    buckets,    \* the Bucket objects allocated so far: [name, list]
    bcall,      \* per caller, the position inside Cache.Bucket
    ret,        \* history: the call made by the last step and what it returned
    lastVal,    \* history: per key, the value of its last successful Add/Update
    deleted,    \* history: keys deleted and not added again since
    fresh,      \* history: per key, the expiration its last Add set, while untouched
    owner,      \* history: per slot, the number of the Add that wrote it last
    nadds,      \* history: successful adds so far
    called,     \* history: per Add, how often the callback got its entry
    ncalls,     \* history: calls of the exported methods so far
    addedBy,    \* history: per key, its last successful Add: [via, expiresIn, id, again]
    limit,      \* the number of calls the callers of this run make
    lock,       \* Cache.Mutex: "free", or the goroutine holding it
    thr,        \* per goroutine, the method it is inside: [pc, op, key, item, dur]
    iter        \* the bucketIterator: [bucket, key, item, position], and
                \* history: last, what its last Next returned

vars == <<slots, keys, nextExp, config, now, jan, buckets, bcall,
          ret, lastVal, deleted, fresh, owner, nadds, called, ncalls,
          addedBy, limit, lock, thr, iter>>

----------------------------------------------------------------------------
(* Bounds of the model *)

\* the clock runs from 0 to MaxTime
MaxTime == 3
\* calls of the exported methods in one run
MaxCalls == 3
\* the same, in the runs over buckets and their iterator
MaxCallsB == 4

\* values callers store
Values == {1, 2}
\* expiresIn arguments of Add, in seconds (0: never expire)
TTLs == {0, 1}
\* extend arguments of Extend, in seconds
Deltas == {-1, 1}
\* the configurations a cache is built with: nil (defaultConfig), a callback,
\* a callback with refresh on access
Configs == {[OnExpires |-> FALSE, Refresh |-> FALSE],
            [OnExpires |-> TRUE, Refresh |-> FALSE],
            [OnExpires |-> TRUE, Refresh |-> TRUE]}
\* callers that may be inside Cache.Bucket at the same time
Callers == {1}

----------------------------------------------------------------------------
(* time.Time and time.Duration *)

\* math.MaxInt64, scaled: the second counter is a signed integer of a scaled width
MaxInt64 == 31
MinInt64 == -MaxInt64 - 1

\* package time's unixToInternal (seconds from year 1 to 1970), scaled
unixToInternal == 2

\* int64 arithmetic wraps
wrap64(x) == ((x - MinInt64) % (2 * (MaxInt64 + 1))) + MinInt64

\* time.Unix(sec, 0)
Unix(sec) == wrap64(sec + unixToInternal)

\* Time.After
After(t, u) == t > u

\* Time.Add
TimeAdd(t, d) == wrap64(t + d)

\* the zero time.Time (nextExp before any add, nearestExp of an empty scan)
zeroTime == 0

\* config.CleanDuration and config.RefreshDuration, in seconds
CleanDuration == 1
RefreshDuration == 1

----------------------------------------------------------------------------
(* hash/fnv New64a, Write, Sum64 *)

Limb == 65536

RECURSIVE xorBits(_, _, _)
xorBits(a, b, n) ==
    IF n = 0 THEN 0
    ELSE (((a % 2) + (b % 2)) % 2) + 2 * xorBits(a \div 2, b \div 2, n - 1)

\* offset64 = 14695981039346656037 = 0xcbf29ce484222325
offset64 == <<8997, 33826, 40164, 52210>>

\* h * prime64 mod 2^64, prime64 = 1099511628211 = 2^40 + 435
mulPrime64(h) ==
    LET p0 == h[1] * 435
        p1 == h[2] * 435 + (p0 \div Limb)
        p2 == h[3] * 435 + (p1 \div Limb) + ((h[1] * 256) % Limb)
        p3 == h[4] * 435 + (p2 \div Limb) + ((h[2] * 256) % Limb) + (h[1] \div 256)
    IN  <<p0 % Limb, p1 % Limb, p2 % Limb, p3 % Limb>>

RECURSIVE sum64a(_, _)
sum64a(h, data) ==
    IF data = <<>> THEN h
    ELSE sum64a(mulPrime64(<<xorBits(h[1], Head(data), 16), h[2], h[3], h[4]>>),
                Tail(data))

\* the key strings of the model, as bytes: "a", "b", "-"
strA == <<97>>
strB == <<98>>
strC == <<99>>
sep == <<45>>

\* flat keys callers use: "a" and "b-a"
FlatKeys == {strA, strB \o sep \o strA}
\* bucket names and the keys used inside a bucket
BucketNames == {strB}
BucketKeys == {strA}
\* the keys used inside a bucket that is iterated over
IterKeys == {strA, strC}

AllStrings == FlatKeys \cup BucketNames
                 \cup {n \o sep \o k : n \in BucketNames, k \in BucketKeys \cup IterKeys}

fnvTable == [s \in AllStrings |-> sum64a(offset64, s)]

\* hasher := fnv.New64a(); hasher.Write([]byte(key)); hasher.Sum64()
hash(key) == fnvTable[key]

Fingerprints == {hash(s) : s \in AllStrings}

----------------------------------------------------------------------------
(* errors *)

ErrCollision == "hash collision"
ErrDNE == "does not exist"
nil == "nil"

\* no value (the nil interface{})
NoItem == 0

----------------------------------------------------------------------------
(* Cache's unexported methods, as functions of the fields they read.       *)
(* Each returns the new fields and what the method returns.                *)

Slot(item, expiresAt) == [Item |-> item, ExpiresAt |-> expiresAt, empty |-> FALSE]

\* the largest element of a non-empty set of indices
maxOf(S) == CHOOSE i \in S : \A j \in S : j <= i

\* delete(t.keys, key)
mapDelete(ks, key) == [k \in DOMAIN ks \ {key} |-> ks[k]]

\* the loop of add over t.slots: every empty slot is overwritten with ts
\* (the loop has no break), and idx ends as the last of them
addFill(sl, ts) == [i \in DOMAIN sl |-> IF sl[i].empty THEN ts ELSE sl[i]]

emptySlots(sl) == {i \in DOMAIN sl : sl[i].empty}

\* add, once the key is known to be unmapped: place the slot, map the key
addNew(sl, ks, ne, key, item, expiresAt) ==
    LET ts == Slot(item, expiresAt)
        fit == emptySlots(sl) # {}
        idx == IF fit THEN maxOf(emptySlots(sl)) ELSE Len(sl) + 1
        sl2 == IF fit THEN addFill(sl, ts) ELSE Append(sl, ts)
        ne2 == IF After(ne, expiresAt) \/ Len(sl2) = 1 THEN expiresAt ELSE ne
    IN  [err |-> nil, slots |-> sl2, keys |-> (key :> idx) @@ ks,
         nextExp |-> ne2]

\* add without the collision test: a mapped key has its slot overwritten
addOverwrite(sl, ks, ne, key, item, expiresAt) ==
    IF key \in DOMAIN ks
    THEN [err |-> nil,
          slots |-> [sl EXCEPT ![ks[key]] = Slot(item, expiresAt)],
          keys |-> ks, nextExp |-> ne]
    ELSE addNew(sl, ks, ne, key, item, expiresAt)

\* func (t *Cache) add(key uint64, item interface{}, expiresAt time.Time) error
add(sl, ks, ne, key, item, expiresAt) ==
    IF key \in DOMAIN ks
    THEN [err |-> ErrCollision, slots |-> sl, keys |-> ks, nextExp |-> ne]
    ELSE addNew(sl, ks, ne, key, item, expiresAt)

\* the body of the scan loop of clean, from slot i on
RECURSIVE cleanLoop(_, _, _)
cleanLoop(i, acc, nowT) ==
    IF i > Len(acc.slots) THEN acc
    ELSE LET object == acc.slots[i] IN
         IF object.empty THEN cleanLoop(i + 1, acc, nowT)
         ELSE IF After(nowT, object.ExpiresAt)
         THEN cleanLoop(i + 1,
                        [acc EXCEPT !.expired = Append(@, object),
                                    !.at = Append(@, i),
                                    !.slots[i].empty = TRUE],
                        nowT)
         ELSE LET n1 == IF acc.firstNonEmpty THEN object.ExpiresAt
                        ELSE acc.nearestExp
                  n2 == IF After(n1, object.ExpiresAt) THEN object.ExpiresAt
                        ELSE n1
              IN  cleanLoop(i + 1,
                            [acc EXCEPT !.nearestExp = n2,
                                        !.firstNonEmpty = FALSE],
                            nowT)

\* clean that collects the expired slots but leaves their empty flag alone
cleanNoTombstone(sl, nowT) ==
    LET acc == cleanLoop(1, [slots |-> sl, expired |-> <<>>, at |-> <<>>,
                             nearestExp |-> zeroTime, firstNonEmpty |-> TRUE],
                         nowT)
    IN  [slots |-> sl, nextExp |-> acc.nearestExp,
         expired |-> acc.expired, at |-> acc.at]

\* func (t *Cache) clean() []Slot
\* (at: the indices of the expired slots, for the history variables only)
clean(sl, nowT) ==
    LET acc == cleanLoop(1, [slots |-> sl, expired |-> <<>>, at |-> <<>>,
                             nearestExp |-> zeroTime, firstNonEmpty |-> TRUE],
                         nowT)
    IN  [slots |-> acc.slots, nextExp |-> acc.nearestExp,
         expired |-> acc.expired, at |-> acc.at]

\* delete without delete(t.keys, key): the slot is tombstoned, the key
\* stays mapped
deleteKeepKey(sl, ks, key) ==
    IF key \notin DOMAIN ks
    THEN [err |-> ErrDNE, slots |-> sl, keys |-> ks]
    ELSE [err |-> nil,
          slots |-> [sl EXCEPT ![ks[key]].empty = TRUE],
          keys |-> ks]

\* func (t *Cache) delete(key uint64) error
delete(sl, ks, key) ==
    IF key \notin DOMAIN ks
    THEN [err |-> ErrDNE, slots |-> sl, keys |-> ks]
    ELSE [err |-> nil,
          slots |-> [sl EXCEPT ![ks[key]].empty = TRUE],
          keys |-> mapDelete(ks, key)]

\* extend without the test of ok: an unmapped key reads index 0 of the map,
\* the first slot
extendNoOk(sl, ks, ne, key, d) ==
    IF key \notin DOMAIN ks /\ sl = <<>>
    THEN [err |-> ErrDNE, slots |-> sl, nextExp |-> ne]
    ELSE LET idx == IF key \in DOMAIN ks THEN ks[key] ELSE 1
             e2 == TimeAdd(sl[idx].ExpiresAt, d)
         IN  [err |-> nil,
              slots |-> [sl EXCEPT ![idx].ExpiresAt = e2],
              nextExp |-> IF After(ne, e2) THEN e2 ELSE ne]

\* extend without the comparison with t.nextExp: the new expiration is
\* stored, nextExp stays
extendKeepNext(sl, ks, ne, key, d) ==
    IF key \notin DOMAIN ks
    THEN [err |-> ErrDNE, slots |-> sl, nextExp |-> ne]
    ELSE [err |-> nil,
          slots |-> [sl EXCEPT ![ks[key]].ExpiresAt = TimeAdd(@, d)],
          nextExp |-> ne]

\* func (t *Cache) extend(key uint64, extend time.Duration) error
extend(sl, ks, ne, key, d) ==
    IF key \notin DOMAIN ks
    THEN [err |-> ErrDNE, slots |-> sl, nextExp |-> ne]
    ELSE LET idx == ks[key]
             e2 == TimeAdd(sl[idx].ExpiresAt, d)
         IN  [err |-> nil,
              slots |-> [sl EXCEPT ![idx].ExpiresAt = e2],
              nextExp |-> IF After(ne, e2) THEN e2 ELSE ne]

\* func (t *Cache) get(key uint64) (interface{}, error)
get(sl, ks, ne, cfg, key) ==
    IF key \notin DOMAIN ks
    THEN [val |-> NoItem, err |-> ErrDNE, slots |-> sl, keys |-> ks,
          nextExp |-> ne]
    ELSE LET item == sl[ks[key]] IN
         IF item.empty
         THEN [val |-> NoItem, err |-> ErrDNE, slots |-> sl,
               keys |-> mapDelete(ks, key), nextExp |-> ne]
         ELSE IF cfg.Refresh
         THEN LET x == extend(sl, ks, ne, key, RefreshDuration) IN
              [val |-> IF x.err = nil THEN item.Item ELSE NoItem,
               err |-> x.err, slots |-> x.slots, keys |-> ks,
               nextExp |-> x.nextExp]
         ELSE [val |-> item.Item, err |-> nil, slots |-> sl, keys |-> ks,
               nextExp |-> ne]

\* func (t *Cache) update(key uint64, item interface{}) error
update(sl, ks, key, item) ==
    IF key \notin DOMAIN ks
    THEN [err |-> ErrDNE, slots |-> sl]
    ELSE [err |-> nil, slots |-> [sl EXCEPT ![ks[key]].Item = item]]

----------------------------------------------------------------------------
(* The state after NewCache(config), and the pieces the actions share *)

emptyMap == [k \in {} |-> 0]

\* time.Now().UTC()
NowUTC == Unix(now)

\* a *Bucket stored as an item: the object's number in buckets, shifted past
\* the plain values
BucketPtr(b) == 10 + b
IsBucketPtr(v) == v > 10

\* an unrecovered panic ends the process: nothing runs after it
Alive == jan.pc # "panic"

\* a caller may start another call
CanCall == Alive /\ ncalls < limit

\* Extend and the refresh of Get are applied only while the expiration they
\* set stays near the clock (or near the "never" of Add), so that repeated
\* extension cannot run through the scaled range of time.Time
NearNow(e) ==
    \/ NowUTC - 1 <= e /\ e <= NowUTC + RefreshDuration + 1
    \/ Unix(MaxInt64) <= e /\ e <= Unix(MaxInt64) + 1

Ret(op, via, key, err, val) ==
    [op |-> op, via |-> via, key |-> key, err |-> err, val |-> val]

NoCall == Ret("none", 0, <<>>, nil, NoItem)

\* the goroutines that enter the store's methods: a caller, and the janitor
\* when the callback it runs calls back into the store
Goroutines == {"caller", "janitor"}

\* a goroutine outside every method
idle == [pc |-> "idle", op |-> "none", key |-> <<>>, item |-> NoItem, dur |-> 0]

\* no iterator made yet
noIter == [bucket |-> 0, key |-> <<>>, item |-> NoItem, position |-> 0,
           last |-> "none"]

\* what the atomic methods leave alone: the mutex is free before and after,
\* the call budget stays, no goroutine is inside a method, no iterator moves
frame == <<limit, lock, thr, iter>>

\* NewCache: no slots, no keys, the zero nextExp, the janitor asleep
Init ==
    /\ slots = <<>>
    /\ keys = emptyMap
    /\ nextExp = zeroTime
    /\ config \in Configs
    /\ now = 0
    /\ jan = [pc |-> "sleep", wakeAt |-> CleanDuration, batch |-> <<>>]
    /\ buckets = <<>>
    /\ bcall = [c \in Callers |-> [pc |-> "idle", name |-> <<>>]]
    /\ ret = NoCall
    /\ lastVal = emptyMap
    /\ deleted = {}
    /\ fresh = emptyMap
    /\ owner = <<>>
    /\ nadds = 0
    /\ called = emptyMap
    /\ ncalls = 0
    /\ addedBy = emptyMap
    /\ limit = MaxCalls
    /\ lock = "free"
    /\ thr = [g \in Goroutines |-> idle]
    /\ iter = noIter

(* history of a call, by kind *)

\* the slots add writes: each empty one, or the appended one
written(sl) == IF emptySlots(sl) # {} THEN emptySlots(sl) ELSE {Len(sl) + 1}

HistAdd(op, via, key, item, expiresIn, expiresAt, r, val) ==
    /\ ret' = Ret(op, via, key, r.err, val)
    /\ ncalls' = IF op = "Bucket" THEN ncalls ELSE ncalls + 1
    /\ IF r.err = nil
       THEN /\ lastVal' = (key :> item) @@ lastVal
            /\ deleted' = deleted \ {key}
            /\ fresh' = IF expiresIn > 0 THEN (key :> expiresAt) @@ fresh
                        ELSE mapDelete(fresh, key)
            /\ nadds' = nadds + 1
            /\ owner' = [i \in DOMAIN r.slots |->
                           IF i \in written(slots) THEN nadds + 1 ELSE owner[i]]
            /\ called' = ((nadds + 1) :> 0) @@ called
            /\ addedBy' = (key :> [via |-> via, expiresIn |-> expiresIn,
                                    id |-> nadds + 1,
                                    again |-> key \in DOMAIN addedBy]) @@ addedBy
       ELSE UNCHANGED <<lastVal, deleted, fresh, nadds, owner, called, addedBy>>

HistGet(op, via, key, r) ==
    /\ ret' = Ret(op, via, key, r.err, r.val)
    /\ ncalls' = ncalls + 1
    /\ fresh' = IF r.err = nil /\ config.Refresh THEN mapDelete(fresh, key)
                ELSE fresh
    /\ UNCHANGED <<lastVal, deleted, nadds, owner, called, addedBy>>

HistUpdate(via, key, item, r) ==
    /\ ret' = Ret("Update", via, key, r.err, NoItem)
    /\ ncalls' = ncalls + 1
    /\ lastVal' = IF r.err = nil THEN (key :> item) @@ lastVal ELSE lastVal
    /\ UNCHANGED <<deleted, fresh, nadds, owner, called, addedBy>>

HistExtend(via, key, r) ==
    /\ ret' = Ret("Extend", via, key, r.err, NoItem)
    /\ ncalls' = ncalls + 1
    /\ fresh' = IF r.err = nil THEN mapDelete(fresh, key) ELSE fresh
    /\ UNCHANGED <<lastVal, deleted, nadds, owner, called, addedBy>>

HistDelete(via, key, r) ==
    /\ ret' = Ret("Delete", via, key, r.err, NoItem)
    /\ ncalls' = ncalls + 1
    /\ deleted' = IF r.err = nil THEN deleted \cup {key} ELSE deleted
    /\ fresh' = IF r.err = nil THEN mapDelete(fresh, key) ELSE fresh
    /\ UNCHANGED <<lastVal, nadds, owner, called, addedBy>>

\* the expirations a call changed stay near the clock
InWindow(sl) ==
    \A i \in DOMAIN sl :
        sl[i].ExpiresAt # slots[i].ExpiresAt => NearNow(sl[i].ExpiresAt)

----------------------------------------------------------------------------
(* Cache's exported methods *)

\* func (t *Cache) Add(key string, item interface{}, expiresIn time.Duration) error
CacheAdd(key, item, expiresIn) ==
    LET hashedKey == hash(key)
        expiresAt == IF expiresIn = 0 THEN Unix(MaxInt64)
                     ELSE TimeAdd(NowUTC, expiresIn)
        r == add(slots, keys, nextExp, hashedKey, item, expiresAt)
    IN  /\ CanCall
        /\ slots' = r.slots
        /\ keys' = r.keys
        /\ nextExp' = r.nextExp
        /\ HistAdd("Add", 0, hashedKey, item, expiresIn, expiresAt, r, NoItem)
        /\ UNCHANGED <<config, now, jan, buckets, bcall, frame>>

\* func (t *Cache) Delete(key string) error
CacheDelete(key) ==
    LET hashedKey == hash(key)
        r == delete(slots, keys, hashedKey)
    IN  /\ CanCall
        /\ slots' = r.slots
        /\ keys' = r.keys
        /\ HistDelete(0, hashedKey, r)
        /\ UNCHANGED <<nextExp, config, now, jan, buckets, bcall, frame>>

\* func (t *Cache) Extend(key string, extend time.Duration) error
CacheExtend(key, d) ==
    LET hashedKey == hash(key)
        r == extend(slots, keys, nextExp, hashedKey, d)
    IN  /\ CanCall
        /\ InWindow(r.slots)
        /\ slots' = r.slots
        /\ nextExp' = r.nextExp
        /\ HistExtend(0, hashedKey, r)
        /\ UNCHANGED <<keys, config, now, jan, buckets, bcall, frame>>

\* func (t *Cache) Get(key string) (interface{}, error)
CacheGet(key) ==
    LET hashedKey == hash(key)
        r == get(slots, keys, nextExp, config, hashedKey)
    IN  /\ CanCall
        /\ InWindow(r.slots)
        /\ slots' = r.slots
        /\ keys' = r.keys
        /\ nextExp' = r.nextExp
        /\ HistGet("Get", 0, hashedKey, r)
        /\ UNCHANGED <<config, now, jan, buckets, bcall, frame>>

\* func (t *Cache) Update(key string, item interface{}) error
CacheUpdate(key, item) ==
    LET hashedKey == hash(key)
        r == update(slots, keys, hashedKey, item)
    IN  /\ CanCall
        /\ slots' = r.slots
        /\ HistUpdate(0, hashedKey, item, r)
        /\ UNCHANGED <<keys, nextExp, config, now, jan, buckets, bcall, frame>>

----------------------------------------------------------------------------
(* Bucket *)

\* pk := b.name + "-" + key, hashed
bucketHash(b, key) == hash(buckets[b].name \o sep \o key)

\* the first position of hk in list, or 0
RECURSIVE indexOf(_, _, _)
indexOf(list, hk, i) ==
    IF i > Len(list) THEN 0
    ELSE IF list[i] = hk THEN i
    ELSE indexOf(list, hk, i + 1)

\* append(b.list[:i], b.list[i+1:]...)
removeAt(list, i) == SubSeq(list, 1, i - 1) \o SubSeq(list, i + 1, Len(list))

\* the membership list after Bucket.Add: hk is appended unless present,
\* before the store is asked
listAdd(list, hk) == IF indexOf(list, hk, 1) # 0 THEN list ELSE Append(list, hk)

\* the membership list after Bucket.Delete: the first hk is cut out
listDelete(list, hk) ==
    IF indexOf(list, hk, 1) # 0 THEN removeAt(list, indexOf(list, hk, 1))
    ELSE list

\* func (c *Cache) Bucket(name string) *Bucket, up to the return of c.Get:
\* a stored bucket is returned, a missing one is left to be created
CacheBucketGet(c, name) ==
    LET hashedKey == hash(name)
        r == get(slots, keys, nextExp, config, hashedKey)
    IN  /\ CanCall
        /\ bcall[c].pc = "idle"
        /\ InWindow(r.slots)
        /\ slots' = r.slots
        /\ keys' = r.keys
        /\ nextExp' = r.nextExp
        /\ bcall' = IF r.err = ErrDNE
                    THEN [bcall EXCEPT ![c] = [pc |-> "add", name |-> name]]
                    ELSE bcall
        /\ HistGet(IF r.err = ErrDNE THEN "BucketGet" ELSE "Bucket",
                   0, hashedKey, r)
        /\ UNCHANGED <<config, now, jan, buckets, frame>>

\* Cache.Bucket after c.Get returned ErrDNE: b := &Bucket{...}; c.Add(name, b, 0)
CacheBucketAdd(c) ==
    LET name == bcall[c].name
        hashedKey == hash(name)
        b == Len(buckets) + 1
        expiresAt == Unix(MaxInt64)
        r == add(slots, keys, nextExp, hashedKey, BucketPtr(b), expiresAt)
    IN  /\ Alive
        /\ bcall[c].pc = "add"
        /\ slots' = r.slots
        /\ keys' = r.keys
        /\ nextExp' = r.nextExp
        /\ buckets' = IF r.err = nil
                      THEN Append(buckets, [name |-> name, list |-> <<>>])
                      ELSE buckets
        /\ bcall' = [bcall EXCEPT ![c] = [pc |-> "idle", name |-> <<>>]]
        /\ HistAdd("Bucket", 0, hashedKey, BucketPtr(b), 0, expiresAt, r,
                   IF r.err = nil THEN BucketPtr(b) ELSE NoItem)
        /\ UNCHANGED <<config, now, jan, frame>>

\* func (b *Bucket) Add(key string, item interface{}, expiresIn time.Duration) error
BucketAdd(b, key, item, expiresIn) ==
    LET hk == bucketHash(b, key)
        expiresAt == TimeAdd(NowUTC, expiresIn)
        r == add(slots, keys, nextExp, hk, item, expiresAt)
    IN  /\ CanCall
        /\ buckets' = [buckets EXCEPT ![b].list = listAdd(@, hk)]
        /\ slots' = r.slots
        /\ keys' = r.keys
        /\ nextExp' = r.nextExp
        /\ HistAdd("Add", b, hk, item, expiresIn, expiresAt, r, NoItem)
        /\ UNCHANGED <<config, now, jan, bcall, frame>>

\* func (b *Bucket) Delete(key string) error
BucketDelete(b, key) ==
    LET hk == bucketHash(b, key)
        r == delete(slots, keys, hk)
    IN  /\ CanCall
        /\ buckets' = [buckets EXCEPT ![b].list = listDelete(@, hk)]
        /\ slots' = r.slots
        /\ keys' = r.keys
        /\ HistDelete(b, hk, r)
        /\ UNCHANGED <<nextExp, config, now, jan, bcall, frame>>

\* func (b *Bucket) Get(key string) (interface{}, error)
BucketGet(b, key) ==
    LET hk == bucketHash(b, key)
        r == get(slots, keys, nextExp, config, hk)
    IN  /\ CanCall
        /\ InWindow(r.slots)
        /\ slots' = r.slots
        /\ keys' = r.keys
        /\ nextExp' = r.nextExp
        /\ HistGet("Get", b, hk, r)
        /\ UNCHANGED <<config, now, jan, buckets, bcall, frame>>

\* func (b *Bucket) Extend(key string, extend time.Duration) error
BucketExtend(b, key, d) ==
    LET hk == bucketHash(b, key)
        r == extend(slots, keys, nextExp, hk, d)
    IN  /\ CanCall
        /\ InWindow(r.slots)
        /\ slots' = r.slots
        /\ nextExp' = r.nextExp
        /\ HistExtend(b, hk, r)
        /\ UNCHANGED <<keys, config, now, jan, buckets, bcall, frame>>

\* func (b *Bucket) Update(key string, item interface{}) error
BucketUpdate(b, key, item) ==
    LET hk == bucketHash(b, key)
        r == update(slots, keys, hk, item)
    IN  /\ CanCall
        /\ slots' = r.slots
        /\ HistUpdate(b, hk, item, r)
        /\ UNCHANGED <<keys, nextExp, config, now, jan, buckets, bcall, frame>>

----------------------------------------------------------------------------
(* The janitor goroutine of NewCache, and the clock *)

\* the janitor goes (back) to time.Sleep(t.config.CleanDuration)
asleep == [pc |-> "sleep", wakeAt |-> now + CleanDuration, batch |-> <<>>]

\* the expired slots of a scan, each with the number of the Add that wrote it
batchOf(c) == [n \in DOMAIN c.expired |->
                  [Item |-> c.expired[n].Item, id |-> owner[c.at[n]]]]

\* time.Sleep returns; if time.Now().UTC().After(t.nextExp), t.clean() runs
JanitorWake ==
    /\ jan.pc = "sleep"
    /\ now >= jan.wakeAt
    /\ IF After(NowUTC, nextExp)
       THEN LET c == clean(slots, NowUTC) IN
            /\ slots' = c.slots
            /\ nextExp' = c.nextExp
            /\ jan' = IF c.expired = <<>> THEN asleep
                      ELSE [pc |-> "expire", wakeAt |-> jan.wakeAt,
                            batch |-> batchOf(c)]
       ELSE /\ jan' = asleep
            /\ UNCHANGED <<slots, nextExp>>
    /\ ret' = NoCall
    /\ UNCHANGED <<keys, config, now, buckets, bcall,
                   lastVal, deleted, fresh, owner, nadds, called, ncalls,
                   addedBy, frame>>

\* t.config.OnExpires(exp.Item) for the next slot of the batch: calling the
\* nil func value of a config without OnExpires panics in the janitor
JanitorOnExpires ==
    /\ jan.pc = "expire"
    /\ IF config.OnExpires
       THEN /\ called' = [called EXCEPT ![Head(jan.batch).id] = @ + 1]
            /\ jan' = IF Tail(jan.batch) = <<>> THEN asleep
                      ELSE [jan EXCEPT !.batch = Tail(@)]
       ELSE /\ jan' = [jan EXCEPT !.pc = "panic"]
            /\ UNCHANGED called
    /\ ret' = NoCall
    /\ UNCHANGED <<slots, keys, nextExp, config, now, buckets, bcall,
                   lastVal, deleted, fresh, owner, nadds, ncalls,
                   addedBy, frame>>

\* a second passes; the janitor is scheduled when its sleep ends, and its
\* callbacks take no time
Tick ==
    /\ jan.pc = "sleep"
    /\ now < jan.wakeAt
    /\ now < MaxTime
    /\ now' = now + 1
    /\ ret' = NoCall
    /\ UNCHANGED <<slots, keys, nextExp, config, jan, buckets, bcall,
                   lastVal, deleted, fresh, owner, nadds, called, ncalls,
                   addedBy, frame>>

----------------------------------------------------------------------------

Handles == DOMAIN buckets

Next ==
    \/ \E key \in FlatKeys, item \in Values, expiresIn \in TTLs :
          CacheAdd(key, item, expiresIn)
    \/ \E key \in FlatKeys : CacheDelete(key)
    \/ \E key \in FlatKeys, d \in Deltas : CacheExtend(key, d)
    \/ \E key \in FlatKeys : CacheGet(key)
    \/ \E key \in FlatKeys, item \in Values : CacheUpdate(key, item)
    \/ \E c \in Callers, name \in BucketNames : CacheBucketGet(c, name)
    \/ \E c \in Callers : CacheBucketAdd(c)
    \/ \E b \in Handles, key \in BucketKeys, item \in Values, expiresIn \in TTLs :
          BucketAdd(b, key, item, expiresIn)
    \/ \E b \in Handles, key \in BucketKeys : BucketDelete(b, key)
    \/ \E b \in Handles, key \in BucketKeys : BucketGet(b, key)
    \/ \E b \in Handles, key \in BucketKeys, d \in Deltas : BucketExtend(b, key, d)
    \/ \E b \in Handles, key \in BucketKeys, item \in Values :
          BucketUpdate(b, key, item)
    \/ JanitorWake
    \/ JanitorOnExpires
    \/ Tick

Spec == Init /\ [][Next]_vars

----------------------------------------------------------------------------
(* The mutex.  The same store with t.Lock() and the deferred t.Unlock() of *)
(* each method as steps of their own: a goroutine enters a method, waits   *)
(* for the mutex if the method takes it, runs the private method and       *)
(* releases what it took.  The callback the janitor runs may itself call a *)
(* method of the store.                                                    *)

\* the methods a goroutine calls here
Methods == {"Add", "Delete", "Extend", "Get", "Update"}

\* does the exported method begin with t.Lock(); defer t.Unlock() ?
\* Add, Delete, Extend and Get do; Update goes to t.update without
takesLock(op) == op # "Update"

\* the fields after the private method of the call in c has run
apply(c) ==
    IF c.op = "Add"
    THEN LET r == add(slots, keys, nextExp, c.key, c.item,
                      IF c.dur = 0 THEN Unix(MaxInt64) ELSE TimeAdd(NowUTC, c.dur))
         IN  [slots |-> r.slots, keys |-> r.keys, nextExp |-> r.nextExp]
    ELSE IF c.op = "Delete"
    THEN LET r == delete(slots, keys, c.key)
         IN  [slots |-> r.slots, keys |-> r.keys, nextExp |-> nextExp]
    ELSE IF c.op = "Extend"
    THEN LET r == extend(slots, keys, nextExp, c.key, c.dur)
         IN  [slots |-> r.slots, keys |-> keys, nextExp |-> r.nextExp]
    ELSE IF c.op = "Get"
    THEN LET r == get(slots, keys, nextExp, config, c.key)
         IN  [slots |-> r.slots, keys |-> r.keys, nextExp |-> r.nextExp]
    ELSE LET r == update(slots, keys, c.key, c.item)
         IN  [slots |-> r.slots, keys |-> keys, nextExp |-> nextExp]

history == <<ret, lastVal, deleted, fresh, owner, nadds, called, addedBy>>

\* goroutine g calls a method: the caller at any time, the janitor from
\* inside the callback it is running
Call(g, op, key, item, dur) ==
    /\ Alive
    /\ ncalls < limit
    /\ thr[g].pc = "idle"
    /\ g = "janitor" => jan.pc = "expire"
    /\ thr' = [thr EXCEPT ![g] = [pc |-> IF takesLock(op) THEN "lock" ELSE "body",
                                  op |-> op, key |-> hash(key), item |-> item,
                                  dur |-> dur]]
    /\ ncalls' = ncalls + 1
    /\ UNCHANGED <<slots, keys, nextExp, config, now, jan, buckets, bcall,
                   history, limit, lock, iter>>

\* t.Lock() returns in g: the mutex was free (it is not reentrant)
CallLock(g) ==
    /\ thr[g].pc = "lock"
    /\ lock = "free"
    /\ lock' = g
    /\ thr' = [thr EXCEPT ![g].pc = "body"]
    /\ UNCHANGED <<slots, keys, nextExp, config, now, jan, buckets, bcall,
                   history, ncalls, limit, iter>>

\* the janitor's callback returns: on to the next expired slot, or to sleep
callbackDone == IF Tail(jan.batch) = <<>> THEN asleep
                ELSE [jan EXCEPT !.batch = Tail(@)]

\* the private method runs in g and the method returns, releasing the mutex
\* if it took it; a callback returns after the method it called
CallBody(g) ==
    LET r == apply(thr[g]) IN
    /\ thr[g].pc = "body"
    /\ slots' = r.slots
    /\ keys' = r.keys
    /\ nextExp' = r.nextExp
    /\ lock' = IF takesLock(thr[g].op) THEN "free" ELSE lock
    /\ thr' = [thr EXCEPT ![g] = idle]
    /\ jan' = IF g = "janitor" THEN callbackDone ELSE jan
    /\ UNCHANGED <<config, now, buckets, bcall, history, ncalls, limit, iter>>

\* time.Sleep returns; if time.Now().UTC().After(t.nextExp) the janitor
\* calls t.clean(), which starts with t.Lock()
JanitorSleepEnds ==
    /\ jan.pc = "sleep"
    /\ now >= jan.wakeAt
    /\ jan' = IF After(NowUTC, nextExp) THEN [jan EXCEPT !.pc = "lock"] ELSE asleep
    /\ UNCHANGED <<slots, keys, nextExp, config, now, buckets, bcall,
                   history, ncalls, limit, lock, thr, iter>>

\* t.Lock() returns in clean
JanitorLock ==
    /\ jan.pc = "lock"
    /\ lock = "free"
    /\ lock' = "janitor"
    /\ jan' = [jan EXCEPT !.pc = "clean"]
    /\ UNCHANGED <<slots, keys, nextExp, config, now, buckets, bcall,
                   history, ncalls, limit, thr, iter>>

\* the janitor with the slots clean returned, before the first callback
expiring(c) ==
    IF c.expired = <<>> THEN asleep
    ELSE [pc |-> "expire", wakeAt |-> jan.wakeAt,
          batch |-> [n \in DOMAIN c.expired |->
                        [Item |-> c.expired[n].Item, id |-> 0]]]

\* clean scans without ever unlocking: the janitor would go to its callbacks
\* with the mutex held
JanitorCleanNoUnlock ==
    LET c == clean(slots, NowUTC) IN
    /\ jan.pc = "clean"
    /\ slots' = c.slots
    /\ nextExp' = c.nextExp
    /\ jan' = expiring(c)
    /\ UNCHANGED <<keys, config, now, buckets, bcall, history, ncalls, limit,
                   lock, thr, iter>>

\* the scan of clean, and its return: the deferred t.Unlock() runs before
\* the janitor has the expired slots
JanitorClean ==
    LET c == clean(slots, NowUTC) IN
    /\ jan.pc = "clean"
    /\ slots' = c.slots
    /\ nextExp' = c.nextExp
    /\ lock' = "free"
    /\ jan' = expiring(c)
    /\ UNCHANGED <<keys, config, now, buckets, bcall, history, ncalls, limit,
                   thr, iter>>

\* t.config.OnExpires(exp.Item) with a callback that returns without calling
\* the store; the nil func value of a config without OnExpires panics
CallbackReturn ==
    /\ jan.pc = "expire"
    /\ thr["janitor"].pc = "idle"
    /\ jan' = IF config.OnExpires THEN callbackDone ELSE [jan EXCEPT !.pc = "panic"]
    /\ UNCHANGED <<slots, keys, nextExp, config, now, buckets, bcall,
                   history, ncalls, limit, lock, thr, iter>>

\* the keys the goroutines use here
LockKeys == {strA}

NextL ==
    \/ \E op \in Methods, key \in LockKeys, item \in Values, dur \in TTLs :
          Call("caller", op, key, item, dur)
    \/ \E op \in Methods, key \in LockKeys, item \in Values, dur \in TTLs :
          config.OnExpires /\ Call("janitor", op, key, item, dur)
    \/ \E g \in Goroutines : CallLock(g)
    \/ \E g \in Goroutines : CallBody(g)
    \/ JanitorSleepEnds
    \/ JanitorLock
    \/ JanitorClean
    \/ CallbackReturn
    \/ Tick

SpecL == Init /\ [][NextL]_vars

----------------------------------------------------------------------------
(* Buckets and their iterator: Add, Delete and Get of a Bucket on two keys *)
(* and one bucketIterator with its Next and Update.                        *)

\* the zero uint64 of a new iterator's key field
zeroKey == <<0, 0, 0, 0>>

\* the configurations used here: a callback, no refresh
ConfigsB == {c \in Configs : c.OnExpires /\ ~c.Refresh}

\* expiresIn arguments of Bucket.Add here
TTLsB == {1}

InitB ==
    /\ slots = <<>>
    /\ keys = emptyMap
    /\ nextExp = zeroTime
    /\ config \in ConfigsB
    /\ now = 0
    /\ jan = [pc |-> "sleep", wakeAt |-> CleanDuration, batch |-> <<>>]
    /\ buckets = <<>>
    /\ bcall = [c \in Callers |-> [pc |-> "idle", name |-> <<>>]]
    /\ ret = NoCall
    /\ lastVal = emptyMap
    /\ deleted = {}
    /\ fresh = emptyMap
    /\ owner = <<>>
    /\ nadds = 0
    /\ called = emptyMap
    /\ ncalls = 0
    /\ addedBy = emptyMap
    /\ limit = MaxCallsB
    /\ lock = "free"
    /\ thr = [g \in Goroutines |-> idle]
    /\ iter = noIter

\* func (b *Bucket) Len() int
BucketLen(b) == Len(buckets[b].list)

\* func (b *Bucket) Iterator() *bucketIterator (one iterator is made in a run)
BucketIterator(b) ==
    /\ Alive
    /\ iter = noIter
    /\ iter' = [bucket |-> b, key |-> zeroKey, item |-> NoItem, position |-> 0,
                last |-> "none"]
    /\ ret' = Ret("Iterator", b, <<>>, nil, NoItem)
    /\ UNCHANGED <<slots, keys, nextExp, config, now, jan, buckets, bcall,
                   lastVal, deleted, fresh, owner, nadds, called, ncalls,
                   addedBy, limit, lock, thr>>

\* func (b *bucketIterator) Next() bool: while the position is inside the
\* list, the key there is looked up with cache.get (its error dropped) and
\* the iterator moves on
IteratorNext ==
    LET list == buckets[iter.bucket].list
        key == list[iter.position + 1]
        r == get(slots, keys, nextExp, config, key)
    IN  /\ Alive
        /\ iter.bucket # 0
        /\ IF iter.position < Len(list)
           THEN /\ InWindow(r.slots)
                /\ slots' = r.slots
                /\ keys' = r.keys
                /\ nextExp' = r.nextExp
                /\ iter' = [iter EXCEPT !.key = key, !.item = r.val,
                                        !.position = @ + 1, !.last = "true"]
                /\ fresh' = IF r.err = nil /\ config.Refresh
                            THEN mapDelete(fresh, key) ELSE fresh
                /\ ret' = Ret("Next", iter.bucket, key, nil, r.val)
           ELSE /\ iter' = [iter EXCEPT !.last = "false"]
                /\ ret' = Ret("Next", iter.bucket, <<>>, nil, NoItem)
                /\ UNCHANGED <<slots, keys, nextExp, fresh>>
        /\ UNCHANGED <<config, now, jan, buckets, bcall, lastVal, deleted,
                       owner, nadds, called, ncalls, addedBy, limit, lock, thr>>

\* func (b *bucketIterator) Item() interface{}
IteratorItem == iter.item

\* func (b *bucketIterator) Update(item interface{}) error
IteratorUpdate(item) ==
    LET r == update(slots, keys, iter.key, item)
    IN  /\ CanCall
        /\ iter.bucket # 0
        /\ slots' = r.slots
        /\ ret' = Ret("IteratorUpdate", iter.bucket, iter.key, r.err, NoItem)
        /\ ncalls' = ncalls + 1
        /\ lastVal' = IF r.err = nil THEN (iter.key :> item) @@ lastVal ELSE lastVal
        /\ UNCHANGED <<keys, nextExp, config, now, jan, buckets, bcall,
                       deleted, fresh, owner, nadds, called, addedBy, frame>>

NextB ==
    \/ \E c \in Callers, name \in BucketNames : CacheBucketGet(c, name)
    \/ \E c \in Callers : CacheBucketAdd(c)
    \/ \E b \in Handles, key \in IterKeys, item \in Values, expiresIn \in TTLsB :
          BucketAdd(b, key, item, expiresIn)
    \/ \E b \in Handles, key \in IterKeys : BucketDelete(b, key)
    \/ \E b \in Handles, key \in IterKeys : BucketGet(b, key)
    \/ \E b \in Handles : BucketIterator(b)
    \/ IteratorNext
    \/ \E item \in Values : IteratorUpdate(item)
    \/ JanitorWake
    \/ JanitorOnExpires
    \/ Tick

SpecB == InitB /\ [][NextB]_vars

----------------------------------------------------------------------------
(* Cache.Bucket called by two goroutines at once, each between its c.Get   *)
(* and its c.Add, with the methods of the buckets they get.                *)

\* goroutines that call Cache.Bucket here
CallersC == {1, 2}

InitC ==
    /\ slots = <<>>
    /\ keys = emptyMap
    /\ nextExp = zeroTime
    /\ config \in ConfigsB
    /\ now = 0
    /\ jan = [pc |-> "sleep", wakeAt |-> CleanDuration, batch |-> <<>>]
    /\ buckets = <<>>
    /\ bcall = [c \in CallersC |-> [pc |-> "idle", name |-> <<>>]]
    /\ ret = NoCall
    /\ lastVal = emptyMap
    /\ deleted = {}
    /\ fresh = emptyMap
    /\ owner = <<>>
    /\ nadds = 0
    /\ called = emptyMap
    /\ ncalls = 0
    /\ addedBy = emptyMap
    /\ limit = MaxCalls
    /\ lock = "free"
    /\ thr = [g \in Goroutines |-> idle]
    /\ iter = noIter

NextC ==
    \/ \E c \in CallersC, name \in BucketNames : CacheBucketGet(c, name)
    \/ \E c \in CallersC : CacheBucketAdd(c)
    \/ \E b \in Handles, key \in BucketKeys, item \in Values, expiresIn \in TTLs :
          BucketAdd(b, key, item, expiresIn)
    \/ \E b \in Handles, key \in BucketKeys : BucketGet(b, key)
    \/ JanitorWake
    \/ JanitorOnExpires
    \/ Tick

SpecC == InitC /\ [][NextC]_vars

----------------------------------------------------------------------------
(* Properties.  A key is named by its fingerprint, the hash of the string  *)
(* the store is given: the key itself for the store's methods, the bucket  *)
(* name, "-" and the key for a bucket's.  ret' is the call a step makes.   *)

\* k is mapped to a slot that is not tombstoned and whose expiration has
\* not passed
LiveKey(k) ==
    /\ k \in DOMAIN keys
    /\ ~slots[keys[k]].empty
    /\ ~After(NowUTC, slots[keys[k]].ExpiresAt)

\* k is mapped to a tombstoned slot (the janitor tombstones without unmapping)
Tombstoned(k) == k \in DOMAIN keys /\ slots[keys[k]].empty

\* k was never added
NeverAdded(k) == k \notin DOMAIN lastVal

\* C1: whenever Get(k) succeeds, through the store or through a bucket, it
\* returns the value of the most recent successful Add(k, ...) or
\* Update(k, ...), whatever happened to other keys and whatever the janitor
\* swept.
C1_GetReturnsLastWrite ==
    (ret.op = "Get" /\ ret.err = nil) =>
        (ret.key \in DOMAIN lastVal /\ ret.val = lastVal[ret.key])

\* C2: for a key that was never added, Get, Delete, Update and Extend each
\* return ErrDNE and leave slots, keys and nextExp as they were.
C2_NeverAddedNotFound ==
    [][(ret'.op \in {"Get", "Delete", "Update", "Extend"} /\ NeverAdded(ret'.key))
          => (/\ ret'.err = ErrDNE
              /\ slots' = slots
              /\ keys' = keys
              /\ nextExp' = nextExp)]_vars

\* C2, witness: Extend through a bucket of a key never added has just
\* returned ErrDNE while other entries are stored.
C2_Witness ==
    /\ ret.op = "Extend"
    /\ ret.via # 0
    /\ NeverAdded(ret.key)
    /\ ret.err = ErrDNE
    /\ \E k \in DOMAIN keys : ~slots[keys[k]].empty

\* C3: Add of a live key returns ErrCollision and leaves the slot of the
\* key (value, expiration, tombstone flag) and its mapping as they were.
C3_AddLiveCollides ==
    [][(ret'.op = "Add" /\ LiveKey(ret'.key))
          => (/\ ret'.err = ErrCollision
              /\ keys' = keys
              /\ slots'[keys[ret'.key]] = slots[keys[ret'.key]])]_vars

\* C3, witness: some time after the first Add, an Add through a bucket has
\* just collided with the live entry of its key.
C3_Witness ==
    /\ ret.op = "Add"
    /\ ret.via # 0
    /\ ret.err = ErrCollision
    /\ LiveKey(ret.key)
    /\ now > 0

C5_ExpiredIsGone ==
    [][(/\ ret'.op = "Get"
        /\ ret'.key \in DOMAIN fresh
        /\ After(NowUTC, TimeAdd(fresh[ret'.key], CleanDuration)))
          => ret'.err = ErrDNE]_vars

\* C6: with a callback configured, the entry of one successful Add is handed
\* to the callback once, never twice.
C6_CallbackOncePerAdd ==
    \A n \in DOMAIN called : called[n] <= 1

\* C7: Get never returns the value of an entry whose expiration (a real
\* time, not the "never" of ttl 0) lies before the current time; it returns
\* ErrDNE, also between two sweeps.
C7_GetChecksExpiration ==
    [][(/\ ret'.op = "Get"
        /\ ret'.key \in DOMAIN keys
        /\ After(slots[keys[ret'.key]].ExpiresAt, zeroTime)
        /\ After(NowUTC, slots[keys[ret'.key]].ExpiresAt))
          => ret'.err = ErrDNE]_vars

\* C8: once the janitor has tombstoned the slot of k, Update(k, v),
\* Extend(k, d) and Delete(k) return ErrDNE and change no slot.
C8_TombstonedNotFound ==
    [][(ret'.op \in {"Update", "Extend", "Delete"} /\ Tombstoned(ret'.key))
          => (ret'.err = ErrDNE /\ slots' = slots)]_vars

\* C9: Add(k, ...) returns ErrCollision only if k is mapped to a slot that
\* is not tombstoned.
C9_CollisionOnlyIfLive ==
    [][(ret'.op = "Add" /\ ret'.err = ErrCollision)
          => (ret'.key \in DOMAIN keys /\ ~slots[keys[ret'.key]].empty)]_vars

\* C10: without a callback the janitor drops the expired entries of a sweep
\* and goes on sweeping: it never fails.
C10_NoCallbackNoFailure ==
    ~config.OnExpires => jan.pc # "panic"

\* the goroutine that takes the step: the one whose call moves, else the
\* janitor
Stepper == IF \E g \in Goroutines : thr'[g] # thr[g]
           THEN CHOOSE g \in Goroutines : thr'[g] # thr[g]
           ELSE "janitor"

\* C11: slots, keys and nextExp are written only by a goroutine that holds
\* the mutex at that moment, whichever exported method or janitor step does
\* the writing.
C11_WritesUnderLock ==
    [][(slots' # slots \/ keys' # keys \/ nextExp' # nextExp)
          => lock = Stepper]_vars

\* C12: the janitor runs the callback only once clean has released the
\* mutex, so a callback that calls a method of the store gets the mutex;
\* and whoever holds the mutex is at a step that gives it back, so no
\* goroutine waits for ever.
C12_CallbackAfterUnlock ==
    /\ (jan.pc = "expire" /\ thr["janitor"].pc \in {"idle", "lock"})
          => lock # "janitor"
    /\ lock = "janitor" => (jan.pc = "clean" \/ thr["janitor"].pc = "body")
    /\ lock = "caller" => (thr["caller"].pc = "body" /\ takesLock(thr["caller"].op))

\* C12, witness: the callback of an expired slot is inside Delete on the
\* same store and holds the mutex, while the caller waits for it.
C12_Witness ==
    /\ jan.pc = "expire"
    /\ thr["janitor"].pc = "body"
    /\ thr["janitor"].op = "Delete"
    /\ lock = "janitor"
    /\ thr["caller"].pc = "lock"

\* the first bucket object made for name, as the item the store holds
firstBucket(name) ==
    BucketPtr(CHOOSE b \in DOMAIN buckets :
                 /\ buckets[b].name = name
                 /\ \A o \in DOMAIN buckets : buckets[o].name = name => b <= o)

\* C13: every call of Bucket(name), whoever makes it and whenever, returns
\* one and the same bucket object, never nil.
C13_BucketIdempotent ==
    \A name \in BucketNames :
        (ret.op = "Bucket" /\ ret.key = hash(name)) =>
            (/\ ret.val # NoItem
             /\ \E b \in DOMAIN buckets : buckets[b].name = name
             /\ ret.val = firstBucket(name))

\* C14: a slot that holds the "never" expiration of an Add with ttl 0 (the
\* bucket object of Cache.Bucket among them) is not tombstoned by any sweep
\* of the janitor, and so never handed to the callback.
C14_NeverIsNeverSwept ==
    [][JanitorWake =>
          \A i \in DOMAIN slots :
              (~slots[i].empty /\ slots[i].ExpiresAt = Unix(MaxInt64))
                  => ~slots'[i].empty]_vars

\* the entry the last successful Add of k stored is still in k's slot
Stored(k) ==
    /\ k \in DOMAIN addedBy
    /\ k \in DOMAIN keys
    /\ ~slots[keys[k]].empty
    /\ owner[keys[k]] = addedBy[k].id

\* C15: an entry added with Bucket.Add(key, v, 0) never expires, as one
\* added with Cache.Add(key, v, 0): no sweep of the janitor tombstones it.
C15_BucketNeverIsNeverSwept ==
    [][JanitorWake =>
          \A k \in DOMAIN addedBy :
              (addedBy[k].via # 0 /\ addedBy[k].expiresIn = 0 /\ Stored(k))
                  => ~slots'[keys[k]].empty]_vars

\* C17: keys of a bucket and keys of the flat store never meet.  An entry
\* added through a bucket is not read, updated or deleted by Cache.Get,
\* Cache.Update or Cache.Delete under any key, and Bucket.Add never returns
\* ErrCollision on account of an entry that Cache.Add stored.
C17_BucketKeysApart ==
    [][/\ (/\ ret'.op \in {"Get", "Update", "Delete"}
           /\ ret'.via = 0
           /\ Stored(ret'.key)
           /\ addedBy[ret'.key].via # 0)
             => ret'.err = ErrDNE
       /\ (/\ ret'.op = "Add"
           /\ ret'.via # 0
           /\ ret'.err = ErrCollision
           /\ Stored(ret'.key))
             => addedBy[ret'.key].via # 0]_vars

\* C19: while some slot is live (not tombstoned), nextExp is not after the
\* expiration of any live slot: it may be early, never late.
C19_NextExpNotLate ==
    \A i \in DOMAIN slots : ~slots[i].empty => ~After(nextExp, slots[i].ExpiresAt)

\* C19, witness: Extend has just brought the expiration of one of two live
\* slots forward, some time after the start, and nextExp is that expiration.
C19_Witness ==
    /\ ret.op = "Extend"
    /\ ret.err = nil
    /\ now > 0
    /\ Cardinality({i \in DOMAIN slots : ~slots[i].empty}) >= 2
    /\ slots[keys[ret.key]].ExpiresAt = nextExp
    /\ \E i \in DOMAIN slots : ~slots[i].empty /\ After(slots[i].ExpiresAt, nextExp)

\* C20: a Bucket.Add that returns ErrCollision leaves the membership list of
\* the bucket as it was: no entry without a successful Add behind it, Len()
\* as before.
C20_FailedAddKeepsList ==
    [][(ret'.op = "Add" /\ ret'.via # 0 /\ ret'.err = ErrCollision)
          => buckets'[ret'.via].list = buckets[ret'.via].list]_vars

\* the keys whose last successful Add went through bucket b
keysOf(b) == {k \in DOMAIN addedBy : addedBy[k].via = b}

\* every key added through b was added once and its entry is still stored
\* and not expired: none was deleted, none expired
Intact(b) ==
    \A k \in keysOf(b) :
        /\ ~addedBy[k].again
        /\ Stored(k)
        /\ ~After(NowUTC, slots[keys[k]].ExpiresAt)

\* the i-th key added through b
nthOf(b, i) ==
    CHOOSE k \in keysOf(b) :
        Cardinality({o \in keysOf(b) : addedBy[o].id < addedBy[k].id}) = i - 1

\* what Bucket.Get of the key with fingerprint hk would return now
valueOf(hk) == get(slots, keys, nextExp, config, hk).val

\* C16: for a bucket whose n added keys are all still there, Len() is n; the
\* i-th Next() of its iterator returns true and leaves Item() at the current
\* value of the i-th key added, Next() returns false after the n-th; and
\* after the iterator's Update(w) on a key, Get of that key gives w and Get
\* of every other key gives what it gave before.
C16_LenAndIteration ==
    \A b \in DOMAIN buckets :
        Intact(b) =>
            /\ BucketLen(b) = Cardinality(keysOf(b))
            /\ (ret.op = "Next" /\ iter.bucket = b /\ iter.last = "true") =>
                  /\ iter.position <= Cardinality(keysOf(b))
                  /\ iter.key = nthOf(b, iter.position)
                  /\ IteratorItem = lastVal[iter.key]
            /\ (ret.op = "Next" /\ iter.bucket = b /\ iter.last = "false") =>
                  iter.position = Cardinality(keysOf(b))
            /\ (ret.op = "IteratorUpdate" /\ iter.bucket = b /\ iter.last = "true") =>
                  /\ ret.err = nil
                  /\ \A k \in keysOf(b) : valueOf(k) = lastVal[k]

\* C18: the iterator's Update(v) before the first Next(), or after Next()
\* has returned false, returns ErrDNE and changes no stored value.
C18_UpdateOffPosition ==
    [][(ret'.op = "IteratorUpdate" /\ iter.last \in {"none", "false"})
          => (ret'.err = ErrDNE /\ slots' = slots)]_vars

\* the slots a scan at this moment finds expired: not tombstoned, and the
\* current time is after their expiration
dueSlots == {i \in DOMAIN slots :
               ~slots[i].empty /\ After(NowUTC, slots[i].ExpiresAt)}

\* the n-th of them, in the order of the scan
dueAt(n) == CHOOSE i \in dueSlots : Cardinality({j \in dueSlots : j < i}) = n - 1

\* the slots the scan leaves live
keptSlots == {i \in DOMAIN slots : ~slots[i].empty} \ dueSlots

\* C21: when the janitor wakes after nextExp, the scan tombstones every live
\* slot whose expiration has passed and hands each of them over exactly once
\* in the expired batch, leaves every other slot as it was (value, expiration
\* and empty flag), and sets nextExp to the least expiration of the slots
\* that stay live.
C21_SweepOnce ==
    [][(JanitorWake /\ After(NowUTC, nextExp)) =>
         /\ DOMAIN slots' = DOMAIN slots
         /\ \A i \in dueSlots :
               slots'[i] = [slots[i] EXCEPT !.empty = TRUE]
         /\ Len(jan'.batch) = Cardinality(dueSlots)
         /\ \A n \in DOMAIN jan'.batch :
               /\ jan'.batch[n].Item = slots[dueAt(n)].Item
               /\ jan'.batch[n].id = owner[dueAt(n)]
         /\ \A i \in DOMAIN slots \ dueSlots : slots'[i] = slots[i]
         /\ keptSlots # {} =>
               /\ \E i \in keptSlots : nextExp' = slots[i].ExpiresAt
               /\ \A i \in keptSlots : ~After(nextExp', slots[i].ExpiresAt)]_vars

\* C21, witness: a scan has just tombstoned two expired slots of three, both
\* wait in the batch, and nextExp is the expiration of the slot left live.
C21_Witness ==
    /\ jan.pc = "expire"
    /\ Len(jan.batch) = 2
    /\ Len(slots) = 3
    /\ Cardinality(emptySlots(slots)) = 2
    /\ \E i \in DOMAIN slots : ~slots[i].empty /\ nextExp = slots[i].ExpiresAt

\* C22: the index t.keys is injective: no two distinct mapped fingerprints
\* point to the same slot, so a call addressed to one key never touches the
\* slot another key reads; also after the janitor tombstoned a slot and an
\* Add of another key reused it.
C22_IndexInjective ==
    \A k1, k2 \in DOMAIN keys : k1 # k2 => keys[k1] # keys[k2]

\* the slots that differ between the state before and the state after
changedSlots == {i \in DOMAIN slots : slots'[i] # slots[i]}

\* C23: every slot that is not tombstoned is the target of a mapped
\* fingerprint, and a successful Add changes exactly one slot: one tombstoned
\* slot if there is any, else one appended slot; every other slot, tombstoned
\* or live, stays as it was.
C23_NoOrphanSlots ==
    /\ [](\A i \in DOMAIN slots :
            ~slots[i].empty => \E k \in DOMAIN keys : keys[k] = i)
    /\ [][(ret'.op = "Add" /\ ret'.err = nil) =>
            IF emptySlots(slots) # {}
            THEN /\ Len(slots') = Len(slots)
                 /\ Cardinality(changedSlots) = 1
                 /\ changedSlots \subseteq emptySlots(slots)
            ELSE /\ Len(slots') = Len(slots) + 1
                 /\ changedSlots = {}]_vars

====
